---- MODULE Spec2Model ----
(***************************************************************************)
(* Model of the blood-pressure logger (src/app.py): the categorisation     *)
(* ladder, input validation, the two storage backends (local CSV file and  *)
(* remote spreadsheet), the load/save router with its fallback, and the    *)
(* three mutating interactions (add reading, CSV import, clear).           *)
(*                                                                         *)
(* Representation.                                                         *)
(*  - A timestamp is a natural number of sub-second ticks; TicksPerSec     *)
(*    ticks make one second.  strftime("%Y-%m-%d %H:%M:%S") keeps whole    *)
(*    seconds only.                                                        *)
(*  - map (mean arterial pressure) is held in tenths: 93.3 is 933.         *)
(*  - A data frame is [cols, rows]: cols the column names in order, rows   *)
(*    a sequence of records carrying all seven fields; a field whose       *)
(*    column is absent, or whose cell is empty, is missing (NaN for text,  *)
(*    None for pulse_pressure).                                            *)
(*  - Form text is a sequence of one-character strings.                    *)
(***************************************************************************)
EXTENDS Integers, Sequences, FiniteSets, TLC

(* gsEnabled, sheet_ref: the configuration (_gs_enabled(), the           *)
(* "spreadsheet" secret).  localFile: bp_data.csv.  sheet: the worksheet   *)
(* of the spreadsheet the last call of get_sheet_handles resolved.  last:  *)
(* the inputs and results of the last interaction.  args, res, phase: the  *)
(* arguments and results of the pure functions applied on their own.       *)
VARIABLES gsEnabled, sheet_ref, localFile, sheet, last, args, res, phase

vars == <<gsEnabled, sheet_ref, localFile, sheet, last, args, res, phase>>

storeVars == <<localFile, sheet>>
cfgVars == <<gsEnabled, sheet_ref>>
pureVars == <<args, res, phase>>

(* ------------------------------ bounds --------------------------------- *)
MaxSys == 145
MaxDia == 95
MaxRows == 2
MaxLen == 2

(* --------------------------- program constants ------------------------- *)
TicksPerSec == 2
SYS_MIN == 50
SYS_MAX == 260
DIA_MIN == 30
DIA_MAX == 180

DATA_COLUMNS == <<"timestamp", "systolic", "diastolic", "notes", "category", "map">>
ROW_COLUMNS == <<"timestamp", "systolic", "diastolic", "notes", "category", "map", "pulse_pressure">>

NaN == "NaN"
None == <<>>
Some(x) == <<x>>

Range(s) == {s[i] : i \in DOMAIN s}

(* ------------------------------ categorize ----------------------------- *)
categorize_bp_le120(sys, dia) ==
    IF sys <= 120 /\ dia < 80 THEN "Normal"
    ELSE IF 120 <= sys /\ sys < 130 /\ dia < 80 THEN "Elevated"
    ELSE IF (130 <= sys /\ sys < 140) \/ (80 <= dia /\ dia < 90) THEN "Hypertension Stage 1"
    ELSE IF sys >= 140 \/ dia >= 90 THEN "Hypertension Stage 2"
    ELSE "Uncategorized"

categorize_bp_gap(sys, dia) ==
    IF sys < 120 /\ dia < 80 THEN "Normal"
    ELSE IF 120 <= sys /\ sys < 130 /\ dia < 80 THEN "Elevated"
    ELSE IF (130 <= sys /\ sys < 140) \/ (120 <= sys /\ 80 <= dia /\ dia < 90) THEN "Hypertension Stage 1"
    ELSE IF sys >= 140 \/ dia >= 90 THEN "Hypertension Stage 2"
    ELSE "Uncategorized"

categorize_bp(sys, dia) ==
    IF sys < 120 /\ dia < 80 THEN "Normal"
    ELSE IF 120 <= sys /\ sys < 130 /\ dia < 80 THEN "Elevated"
    ELSE IF (130 <= sys /\ sys < 140) \/ (80 <= dia /\ dia < 90) THEN "Hypertension Stage 1"
    ELSE IF sys >= 140 \/ dia >= 90 THEN "Hypertension Stage 2"
    ELSE "Uncategorized"

(* round(dia + pp/3, 1), in tenths.  dia + pp/3 = (2*dia + sys)/3, whose   *)
(* fraction is 0, 1/3 or 2/3, so rounding to one decimal never meets a tie.*)
Map10(sys, dia) == (2 * (10 * (2 * dia + sys)) + 3) \div 6

(* ------------------------------ parse_int ------------------------------ *)
DigitVal == ("0" :> 0) @@ ("1" :> 1) @@ ("2" :> 2) @@ ("3" :> 3) @@ ("4" :> 4) @@
            ("5" :> 5) @@ ("6" :> 6) @@ ("7" :> 7) @@ ("8" :> 8) @@ ("9" :> 9)
Digits == DOMAIN DigitVal
Whitespace == {" "}

RECURSIVE LStrip(_)
LStrip(s) == IF s # <<>> /\ Head(s) \in Whitespace THEN LStrip(Tail(s)) ELSE s

RECURSIVE RStrip(_)
RStrip(s) == IF s # <<>> /\ s[Len(s)] \in Whitespace
             THEN RStrip(SubSeq(s, 1, Len(s) - 1)) ELSE s

Strip(s) == RStrip(LStrip(s))

(* int(str): optional sign, then digits, single underscores allowed        *)
(* between digits.                                                         *)
Unsigned(s) == IF s # <<>> /\ Head(s) \in {"+", "-"} THEN Tail(s) ELSE s

IsIntLiteral(s) ==
    LET b == Unsigned(s) IN
    /\ b # <<>>
    /\ b[1] \in Digits
    /\ b[Len(b)] \in Digits
    /\ \A i \in DOMAIN b : b[i] \in Digits \cup {"_"}
    /\ \A i \in 1..(Len(b) - 1) : ~(b[i] = "_" /\ b[i + 1] = "_")

RECURSIVE DigitsValue(_, _)
DigitsValue(b, acc) ==
    IF b = <<>> THEN acc
    ELSE IF Head(b) = "_" THEN DigitsValue(Tail(b), acc)
    ELSE DigitsValue(Tail(b), 10 * acc + DigitVal[Head(b)])

IntValue(s) ==
    LET v == DigitsValue(Unsigned(s), 0) IN
    IF s # <<>> /\ Head(s) = "-" THEN 0 - v ELSE v

NoError == [kind |-> "none", label |-> "", min |-> 0, max |-> 0]
Error(kind, label, min_v, max_v) == [kind |-> kind, label |-> label, min |-> min_v, max |-> max_v]

parse_int_nomax(field_label, raw, min_v, max_v) ==
    LET t == Strip(raw) IN
    IF t = <<>> THEN [val |-> None, err |-> Error("required", field_label, 0, 0)]
    ELSE IF ~IsIntLiteral(t) THEN [val |-> None, err |-> Error("whole number", field_label, 0, 0)]
    ELSE IF ~(min_v <= IntValue(t))
         THEN [val |-> None, err |-> Error("between", field_label, min_v, max_v)]
    ELSE [val |-> Some(IntValue(t)), err |-> NoError]

parse_int(field_label, raw, min_v, max_v) ==
    LET t == Strip(raw) IN
    IF t = <<>> THEN [val |-> None, err |-> Error("required", field_label, 0, 0)]
    ELSE IF ~IsIntLiteral(t) THEN [val |-> None, err |-> Error("whole number", field_label, 0, 0)]
    ELSE IF ~(min_v <= IntValue(t) /\ IntValue(t) <= max_v)
         THEN [val |-> None, err |-> Error("between", field_label, min_v, max_v)]
    ELSE [val |-> Some(IntValue(t)), err |-> NoError]

(* ------------------------------ data frames ---------------------------- *)
Row(ts, sys, dia, notes, cat, map10, pp) ==
    [timestamp |-> ts, systolic |-> sys, diastolic |-> dia, notes |-> notes,
     category |-> cat, map |-> map10, pulse_pressure |-> pp]

Frame(cols, rows) == [cols |-> cols, rows |-> rows]

(* pd.DataFrame(columns=DATA_COLUMNS) *)
EmptyFrame == Frame(DATA_COLUMNS, <<>>)

ConcatCols(a, b) == a \o SelectSeq(b, LAMBDA c : c \notin Range(a))

(* pd.concat([a, b], ignore_index=True) *)
Concat(a, b) == Frame(ConcatCols(a.cols, b.cols), a.rows \o b.rows)

RECURSIVE InsertByTs(_, _)
InsertByTs(r, sorted) ==
    IF sorted = <<>> THEN <<r>>
    ELSE IF Head(sorted).timestamp <= r.timestamp
         THEN <<Head(sorted)>> \o InsertByTs(r, Tail(sorted))
         ELSE <<r>> \o sorted

RECURSIVE SortRows(_)
SortRows(rows) ==
    IF rows = <<>> THEN <<>>
    ELSE InsertByTs(rows[Len(rows)], SortRows(SubSeq(rows, 1, Len(rows) - 1)))

(* df.sort_values("timestamp"); rows of equal timestamp keep their order   *)
(* here, the properties below do not depend on the order among ties.       *)
sort_values(d) == Frame(d.cols, SortRows(d.rows))

RECURSIVE DropDupRows(_, _)
DropDupRows(rows, seen) ==
    IF rows = <<>> THEN <<>>
    ELSE IF Head(rows) \in seen THEN DropDupRows(Tail(rows), seen)
    ELSE <<Head(rows)>> \o DropDupRows(Tail(rows), seen \cup {Head(rows)})

(* df.drop_duplicates(): the first of each group of rows equal in all      *)
(* columns is kept (missing values compare equal).                         *)
drop_duplicates_none(d) == d

drop_duplicates(d) == Frame(d.cols, DropDupRows(d.rows, {}))

(* line 236 *)
merge(existing, incoming) == sort_values(drop_duplicates(Concat(existing, incoming)))

(* ------------------------------ local CSV ------------------------------ *)
Missing == [exists |-> FALSE, cols |-> <<>>, rows |-> <<>>]

CsvCell(v) == IF v = NaN THEN "" ELSE v
CsvText(v) == IF v = "" THEN NaN ELSE v

CsvRow(r) == [r EXCEPT !.notes = CsvCell(r.notes)]
TextRow(r) == [r EXCEPT !.notes = CsvText(r.notes)]

(* df.to_csv(CSV_PATH, index=False): header and one line per row, a        *)
(* missing value written as an empty cell.                                 *)
to_csv(d) ==
    [exists |-> TRUE, cols |-> d.cols,
     rows |-> [i \in DOMAIN d.rows |-> CsvRow(d.rows[i])]]

(* pd.read_csv(..., parse_dates=["timestamp"]): an empty cell is read as   *)
(* missing; it raises when the timestamp column is absent.                 *)
read_csv_raises(f) == "timestamp" \notin Range(f.cols)

read_csv(f) ==
    Frame(f.cols, [i \in DOMAIN f.rows |-> TextRow(f.rows[i])])

Raised(d) == [raised |-> TRUE, df |-> d]
Returned(d) == [raised |-> FALSE, df |-> d]

load_data_local_nocatch(f) ==
    IF ~f.exists THEN Raised(EmptyFrame)
    ELSE IF read_csv_raises(f) THEN Raised(EmptyFrame)
    ELSE Returned(read_csv(f))

load_data_local(f) ==
    IF ~f.exists THEN Returned(EmptyFrame)
    ELSE IF read_csv_raises(f) THEN Raised(EmptyFrame)
    ELSE Returned(read_csv(f))

save_data_local(d) == to_csv(d)

(* ------------------------------ spreadsheet ---------------------------- *)
NoWorksheet == [ws |-> FALSE, cols |-> <<>>, rows |-> <<>>]
Worksheet(cols, rows) == [ws |-> TRUE, cols |-> cols, rows |-> rows]

(* what the remote service does during one call: "handles" is            *)
(* get_sheet_handles returning an error (authorisation, line 60, or        *)
(* opening, line 81), "io" a failure of the read or of the write before    *)
(* the sheet is touched, "ioAfterClear" a failure of the write between     *)
(* ws.clear() and set_with_dataframe.                                      *)
RemoteOutcomes == {"ok", "handles", "io", "ioAfterClear"}
HandleFailures == {"handles"}

(* get_sheet_handles when it succeeds: the spreadsheet named by the        *)
(* configuration, or a newly created one when none is named; a missing     *)
(* worksheet is added with the header row.  Only the spreadsheet the last  *)
(* call resolved is kept: a created spreadsheet is never opened again.     *)
get_sheet_handles(s, ref) ==
    LET sh == IF ref = "" THEN NoWorksheet ELSE s IN
    IF sh.ws THEN sh ELSE Worksheet(DATA_COLUMNS, <<>>)

Seconds(ts) == ts - (ts % TicksPerSec)

(* df2 = df[DATA_COLUMNS], timestamps formatted to whole seconds when the  *)
(* column is of a datetime dtype (dt). *)
SheetRow(r, dt) ==
    [r EXCEPT !.timestamp = IF dt THEN Seconds(r.timestamp) ELSE r.timestamp,
              !.notes = CsvCell(r.notes),
              !.pulse_pressure = None]

(* load_data_gsheets: [df, err, sheet] *)
load_data_gsheets(s, ref, o) ==
    IF o \in HandleFailures THEN [df |-> EmptyFrame, err |-> o, sheet |-> s]
    ELSE LET h == get_sheet_handles(s, ref) IN
         IF o # "ok" THEN [df |-> EmptyFrame, err |-> "io", sheet |-> h]
         ELSE IF h.cols = <<>> \/ h.rows = <<>>
              THEN [df |-> EmptyFrame, err |-> "", sheet |-> h]
         ELSE [df |-> Frame(ConcatCols(h.cols, DATA_COLUMNS),
                            [i \in DOMAIN h.rows |-> TextRow(h.rows[i])]),
               err |-> "", sheet |-> h]

(* save_data_gsheets: [err, sheet] *)
save_data_gsheets(d, s, ref, o, dt) ==
    IF o \in HandleFailures THEN [err |-> o, sheet |-> s]
    ELSE LET h == get_sheet_handles(s, ref) IN
         IF o = "io" THEN [err |-> "io", sheet |-> h]
         ELSE IF o = "ioAfterClear" THEN [err |-> "io", sheet |-> Worksheet(<<>>, <<>>)]
         ELSE [err |-> "",
               sheet |-> Worksheet(DATA_COLUMNS, [i \in DOMAIN d.rows |-> SheetRow(d.rows[i], dt)])]

(* ------------------------------ router --------------------------------- *)
Msg(kind) == Error(kind, "", 0, 0)

(* load_data: [df, used, sheet, raised, attempts, errs] *)
load_data(f, s, ref, enabled, o) ==
    IF enabled
    THEN LET r == load_data_gsheets(s, ref, o) IN
         IF r.err # ""
         THEN LET l == load_data_local(f) IN
              [df |-> l.df, used |-> "local", sheet |-> r.sheet, raised |-> l.raised,
               attempts |-> <<"gsheets", "local">>, errs |-> {Msg("read issue")}]
         ELSE [df |-> r.df, used |-> "gsheets", sheet |-> r.sheet, raised |-> FALSE,
               attempts |-> <<"gsheets">>, errs |-> {}]
    ELSE LET l == load_data_local(f) IN
         [df |-> l.df, used |-> "local", sheet |-> s, raised |-> l.raised,
          attempts |-> <<"local">>, errs |-> {}]

(* save_data: [used, localFile, sheet, attempts, errs] *)
save_data_nofallback(d, target_hint, f, s, ref, enabled, o, dt) ==
    IF target_hint = "gsheets" /\ enabled
    THEN LET r == save_data_gsheets(d, s, ref, o, dt) IN
         IF r.err # ""
         THEN [used |-> "local", localFile |-> f, sheet |-> r.sheet,
               attempts |-> <<"gsheets">>,
               errs |-> {Msg("write failed"), Msg("saving locally")}]
         ELSE [used |-> "gsheets", localFile |-> f, sheet |-> r.sheet,
               attempts |-> <<"gsheets">>, errs |-> {}]
    ELSE [used |-> "local", localFile |-> save_data_local(d), sheet |-> s,
          attempts |-> <<"local">>, errs |-> {}]

save_data(d, target_hint, f, s, ref, enabled, o, dt) ==
    IF target_hint = "gsheets" /\ enabled
    THEN LET r == save_data_gsheets(d, s, ref, o, dt) IN
         IF r.err # ""
         THEN [used |-> "local", localFile |-> save_data_local(d), sheet |-> r.sheet,
               attempts |-> <<"gsheets", "local">>,
               errs |-> {Msg("write failed"), Msg("saving locally")}]
         ELSE [used |-> "gsheets", localFile |-> f, sheet |-> r.sheet,
               attempts |-> <<"gsheets">>, errs |-> {}]
    ELSE [used |-> "local", localFile |-> save_data_local(d), sheet |-> s,
          attempts |-> <<"local">>, errs |-> {}]

Status(o) == IF o = "ok" THEN "ok" ELSE "failed"

(* is_datetime64_any_dtype(df2["timestamp"]): a frame read from the sheet  *)
(* (pd.to_datetime) or from a file with rows (parse_dates) has a datetime  *)
(* column; concatenating onto the empty object-typed frame of the local    *)
(* loader gives a datetime or an object column, depending on the pandas    *)
(* release.                                                                *)
DtFor(l) == IF l.used = "local" /\ l.df.rows = <<>> THEN BOOLEAN ELSE {TRUE}

(* the frame add_entry builds: lines 192-202 *)
NewRow(sys, dia, notes, ts) ==
    Row(ts, sys, dia, notes, categorize_bp(sys, dia), Map10(sys, dia), Some(sys - dia))

appended_unsorted(loaded, sys, dia, notes, ts) ==
    Concat(loaded, Frame(ROW_COLUMNS, <<NewRow(sys, dia, notes, ts)>>))

appended(loaded, sys, dia, notes, ts) ==
    sort_values(Concat(loaded, Frame(ROW_COLUMNS, <<NewRow(sys, dia, notes, ts)>>)))

(* add_entry: [df, used, prior, localFile, sheet, attempts, errs, raised]  *)
add_entry(sys, dia, notes, ts, target_hint, f, s, ref, enabled, lo, so, dt) ==
    LET l == load_data(f, s, ref, enabled, lo)
        d == appended(l.df, sys, dia, notes, ts)
        w == save_data(d, target_hint, f, l.sheet, ref, enabled, so, dt) IN
    IF l.raised
    THEN [df |-> l.df, used |-> "", prior |-> l.df, localFile |-> f, sheet |-> l.sheet,
          attempts |-> <<>>, errs |-> l.errs, raised |-> TRUE, dts |-> {TRUE}]
    ELSE [df |-> d, used |-> w.used, prior |-> l.df, localFile |-> w.localFile,
          sheet |-> w.sheet, attempts |-> w.attempts, errs |-> l.errs \cup w.errs,
          raised |-> FALSE]

(* ------------------------------ inputs --------------------------------- *)
(* the "spreadsheet" secret: "named" is a URL or a key (open_by_url and   *)
(* open_by_key open the same existing spreadsheet), "" is none.            *)
SheetRefs == {"named", ""}

(* the two text fields of one submission *)
FormInputs == { << <<"a", "b", "c">>, <<" ", " ">> >>,
                << <<"3", "0", "0">>, <<"8", "0">> >>,
                << <<"1", "2", "0">>, <<"2", "9">> >>,
                << <<" ", "+", "1", "_", "2", "0", " ">>, <<"8", "0">> >> }
NotesInputs == {""}
(* the instant of a submission: half past second 0, and second 1 *)
Timestamps == {1, 2}

LoadOutcomes == RemoteOutcomes \ {"ioAfterClear"}
OutcomesFor(enabled, S) == IF enabled THEN S ELSE {"ok"}

(* uploaded files: one written by a program variant whose ladder differs, *)
(* one that is not a readings file.                                        *)
VariantFile ==
    [exists |-> TRUE, cols |-> ROW_COLUMNS,
     rows |-> <<Row(1, 110, 85, "n", "Uncategorized", 933, Some(25))>>]
BadFile == [exists |-> TRUE, cols |-> <<"systolic", "diastolic">>, rows |-> <<>>]
ImportFiles == {VariantFile, BadFile}

NoForm == [sys_raw |-> <<>>, dia_raw |-> <<>>, notes |-> "", ts |-> 0]
Mutations == {"add", "import", "clear"}

Last(o, d, u, p, a, e, f, h, lo, so, r) ==
    [op |-> o, df |-> d, used |-> u, prior |-> p, attempts |-> a, errs |-> e,
     form |-> f, hint |-> h, load |-> lo, save |-> so, raised |-> r]

(* ------------------------------ state machine -------------------------- *)
InitApp ==
    /\ localFile = Missing
    /\ sheet = NoWorksheet
    /\ last = Last("init", EmptyFrame, "", EmptyFrame, <<>>, {}, NoForm, "", "none", "none", FALSE)

Init ==
    /\ gsEnabled \in BOOLEAN
    /\ sheet_ref \in SheetRefs
    /\ InitApp
    /\ args = <<>> /\ res = <<>> /\ phase = "app"

io_mode == IF gsEnabled THEN "gsheets" ELSE "local"

(* lines 277-285 *)
Submit ==
    \E fields \in FormInputs, notes \in NotesInputs :
    \E sys_raw \in {fields[1]}, dia_raw \in {fields[2]} :
    \E p1 \in {parse_int("Systolic", sys_raw, SYS_MIN, SYS_MAX)} :
    \E p2 \in {parse_int("Diastolic", dia_raw, DIA_MIN, DIA_MAX)} :
      /\ phase = "app"
      /\ IF p1.err # NoError \/ p2.err # NoError
         THEN /\ last' = Last("reject", EmptyFrame, "", EmptyFrame, <<>>,
                              {p1.err, p2.err} \ {NoError},
                              [sys_raw |-> sys_raw, dia_raw |-> dia_raw, notes |-> notes, ts |-> 0],
                              "", "none", "none", FALSE)
              /\ UNCHANGED storeVars
         ELSE \E ts \in Timestamps, lo \in OutcomesFor(gsEnabled, LoadOutcomes),
                 so \in OutcomesFor(gsEnabled, RemoteOutcomes) :
              \E dt \in DtFor(load_data(localFile, sheet, sheet_ref, gsEnabled, lo)) :
              \E a \in {add_entry(p1.val[1], p2.val[1], notes, ts, "gsheets",
                                  localFile, sheet, sheet_ref, gsEnabled, lo, so, dt)} :
              /\ Len(a.df.rows) <= MaxRows
              /\ localFile' = a.localFile
              /\ sheet' = a.sheet
              /\ last' = Last("add", a.df, a.used, a.prior, a.attempts, a.errs,
                              [sys_raw |-> sys_raw, dia_raw |-> dia_raw, notes |-> notes, ts |-> ts],
                              "gsheets", "none", Status(so), a.raised)
      /\ UNCHANGED <<cfgVars, pureVars>>

(* lines 232-240 *)
Import ==
    \E file \in ImportFiles, lo \in OutcomesFor(gsEnabled, LoadOutcomes) :
    \E l \in {load_data(localFile, sheet, sheet_ref, gsEnabled, lo)} :
      /\ phase = "app"
      /\ IF l.raised \/ read_csv_raises(file)
         THEN /\ sheet' = l.sheet
              /\ last' = Last("import_failed", EmptyFrame, "", EmptyFrame, <<>>,
                              l.errs \cup {Msg("import failed")}, NoForm,
                              io_mode, "none", "none", FALSE)
              /\ UNCHANGED localFile
         ELSE \E so \in OutcomesFor(gsEnabled, RemoteOutcomes), dt \in DtFor(l) :
              \E merged \in {merge(l.df, read_csv(file))} :
              \E w \in {save_data(merged, io_mode, localFile, l.sheet, sheet_ref, gsEnabled, so, dt)} :
              /\ Len(merged.rows) <= MaxRows
              /\ localFile' = w.localFile
              /\ sheet' = w.sheet
              /\ last' = Last("import", merged, w.used, l.df, w.attempts, l.errs \cup w.errs,
                              NoForm, io_mode, "none", Status(so), FALSE)
      /\ UNCHANGED <<cfgVars, pureVars>>

(* lines 242-245 *)
Clear ==
    \E so \in OutcomesFor(gsEnabled, RemoteOutcomes) :
    \E w \in {save_data(EmptyFrame, io_mode, localFile, sheet, sheet_ref, gsEnabled, so, TRUE)} :
      /\ phase = "app"
      /\ localFile' = w.localFile
      /\ sheet' = w.sheet
      /\ last' = Last("clear", EmptyFrame, w.used, EmptyFrame, w.attempts, w.errs,
                      NoForm, io_mode, "none", Status(so), FALSE)
      /\ UNCHANGED <<cfgVars, pureVars>>

(* line 253 (and the download button, line 228): df, current_target = load_data() *)
Load ==
    \E lo \in OutcomesFor(gsEnabled, LoadOutcomes) :
    \E l \in {load_data(localFile, sheet, sheet_ref, gsEnabled, lo)} :
      /\ phase = "app"
      /\ sheet' = l.sheet
      /\ last' = Last(IF last.op \in Mutations THEN "load_after_save" ELSE "load",
                      l.df, l.used,
                      IF last.op \in Mutations THEN last.df ELSE EmptyFrame,
                      l.attempts, l.errs, NoForm, "", Status(lo), "none", l.raised)
      /\ UNCHANGED <<localFile, cfgVars, pureVars>>

Next == Submit \/ Import \/ Clear \/ Load

Spec == Init /\ [][Next]_vars

(* ------------------- the pure functions on their own ------------------- *)
Idle ==
    /\ gsEnabled = FALSE
    /\ sheet_ref = ""
    /\ InitApp
    /\ res = <<>>
    /\ phase = "input"

SeqsUpTo(S, n) == UNION {[1..k -> S] : k \in 0..n}

(* categorize_bp applied to one pair *)
InitCat ==
    /\ args \in (0..MaxSys) \X (0..MaxDia)
    /\ Idle

Categorize ==
    /\ phase = "input"
    /\ res' = <<categorize_bp(args[1], args[2])>>
    /\ phase' = "done"
    /\ UNCHANGED <<cfgVars, storeVars, last, args>>

NextCat == Categorize

SpecCat == InitCat /\ [][NextCat]_vars

(* rows as a loader returns them: two readings of the same instant, a      *)
(* later one, and one read back from the sheet (no pulse_pressure).        *)
PoolRows == { NewRow(120, 80, NaN, 0),
              Row(0, 110, 85, "n", "Uncategorized", 933, Some(25)),
              NewRow(120, 80, NaN, 2),
              [NewRow(120, 80, NaN, 0) EXCEPT !.pulse_pressure = None] }

ColsOf(rows) ==
    IF \E i \in DOMAIN rows : rows[i].pulse_pressure # None THEN ROW_COLUMNS ELSE DATA_COLUMNS

PoolFrames == {Frame(ColsOf(rows), rows) : rows \in SeqsUpTo(PoolRows, MaxLen)}

(* the import merge applied to two frames, in both orders and to one twice *)
InitMerge ==
    /\ args \in PoolFrames \X PoolFrames
    /\ Idle

MergeFrames ==
    /\ phase = "input"
    /\ res' = [ab |-> merge(args[1], args[2]),
               ba |-> merge(args[2], args[1]),
               aa |-> merge(args[1], args[1])]
    /\ phase' = "done"
    /\ UNCHANGED <<cfgVars, storeVars, last, args>>

NextMerge == MergeFrames

SpecMerge == InitMerge /\ [][NextMerge]_vars

(* add_entry applied to stores whose rows are in any order *)
StoredFiles == {Missing} \cup {to_csv(d) : d \in PoolFrames}
StoredSheets ==
    { NoWorksheet,
      Worksheet(DATA_COLUMNS, << SheetRow(NewRow(120, 80, NaN, 2), FALSE),
                                 SheetRow(NewRow(120, 80, NaN, 0), FALSE) >>) }

InitAppend ==
    /\ args \in [file : StoredFiles, sheet : StoredSheets, ts : Timestamps,
                 enabled : BOOLEAN, ref : SheetRefs,
                 lo : LoadOutcomes, so : RemoteOutcomes, dt : BOOLEAN]
    /\ args.enabled \/ (args.ref = "" /\ args.lo = "ok" /\ args.so = "ok")
    /\ args.dt \in DtFor(load_data(args.file, args.sheet, args.ref, args.enabled, args.lo))
    /\ Idle

AppendEntry ==
    /\ phase = "input"
    /\ res' = add_entry(120, 80, "", args.ts, "gsheets", args.file, args.sheet,
                        args.ref, args.enabled, args.lo, args.so, args.dt)
    /\ phase' = "done"
    /\ UNCHANGED <<cfgVars, storeVars, last, args>>

NextAppend == AppendEntry

SpecAppend == InitAppend /\ [][NextAppend]_vars

(* =============================== claims ================================ *)
Categories == {"Normal", "Elevated", "Hypertension Stage 1", "Hypertension Stage 2",
               "Uncategorized"}
RuleNormal(s, d) == s < 120 /\ d < 80
RuleElevated(s, d) == 120 <= s /\ s < 130 /\ d < 80
RuleStage1(s, d) == (130 <= s /\ s < 140) \/ (80 <= d /\ d < 90)
RuleStage2(s, d) == s >= 140 \/ d >= 90

(* C1: categorize_bp is total over pairs s >= 0, d >= 0: the result is one *)
(* of the five categories, and it is the category of the first rule that   *)
(* matches in the order Normal, Elevated, Stage 1, Stage 2, otherwise      *)
(* Uncategorized; (119,79) is Normal, (120,79) and (129,79) Elevated,      *)
(* (130,79) and (139,89) Stage 1, (140,70) Stage 2.                        *)
C1_FirstMatchingRule ==
    phase = "done" =>
      LET s == args[1]
          d == args[2]
          c == res[1]
      IN
      /\ c \in Categories
      /\ RuleNormal(s, d) => c = "Normal"
      /\ ~RuleNormal(s, d) /\ RuleElevated(s, d) => c = "Elevated"
      /\ ~RuleNormal(s, d) /\ ~RuleElevated(s, d) /\ RuleStage1(s, d)
            => c = "Hypertension Stage 1"
      /\ ~RuleNormal(s, d) /\ ~RuleElevated(s, d) /\ ~RuleStage1(s, d) /\ RuleStage2(s, d)
            => c = "Hypertension Stage 2"
      /\ ~RuleNormal(s, d) /\ ~RuleElevated(s, d) /\ ~RuleStage1(s, d) /\ ~RuleStage2(s, d)
            => c = "Uncategorized"
      /\ args = <<119, 79>> => c = "Normal"
      /\ args \in {<<120, 79>>, <<129, 79>>} => c = "Elevated"
      /\ args \in {<<130, 79>>, <<139, 89>>} => c = "Hypertension Stage 1"
      /\ args = <<140, 70>> => c = "Hypertension Stage 2"

C1_Witness ==
    phase = "done" /\ args = <<129, 79>> /\ res = <<"Elevated">>

(* C2 as stated: a pair with systolic < 120 and diastolic >= 80 is         *)
(* classified Uncategorized.                                               *)
C2_GapIsUncategorized ==
    phase = "done" /\ args[1] < 120 /\ args[2] >= 80 => res[1] = "Uncategorized"

(* C2 amended: the ladder has no gap.  A pair with systolic < 120 and      *)
(* diastolic >= 80 is Hypertension Stage 1 when diastolic < 90 and         *)
(* Hypertension Stage 2 otherwise, so (110,85) is Stage 1, and no pair of  *)
(* integers is classified Uncategorized.                                   *)
C2_NoGap ==
    phase = "done" =>
      /\ res[1] # "Uncategorized"
      /\ args[1] < 120 /\ args[2] >= 80 =>
            res[1] = IF args[2] < 90 THEN "Hypertension Stage 1" ELSE "Hypertension Stage 2"

C2_Witness ==
    phase = "done" /\ args = <<110, 85>> /\ res = <<"Hypertension Stage 1">>

Derived(r) ==
    /\ r.category = categorize_bp(r.systolic, r.diastolic)
    /\ r.pulse_pressure = Some(r.systolic - r.diastolic)
    /\ r.map = Map10(r.systolic, r.diastolic)

(* C3: every reading persisted in the local file or in the sheet has       *)
(* category = categorize_bp(systolic, diastolic), pulse_pressure =         *)
(* systolic - diastolic and map = diastolic + pulse_pressure/3 rounded to  *)
(* one decimal.                                                            *)
C3_DerivedFieldsNeverDrift ==
    /\ \A i \in DOMAIN localFile.rows : Derived(localFile.rows[i])
    /\ \A i \in DOMAIN sheet.rows : Derived(sheet.rows[i])

(* C4: a save whose remote write fails leaves the frame in the local file  *)
(* and reports "local"; "gsheets" is reported only when the remote backend *)
(* is enabled, the hint is "gsheets" and the remote write succeeded; a     *)
(* save makes at most one remote attempt, followed by at most one local    *)
(* attempt.                                                                *)
C4_SaveFallback ==
    last.op \in Mutations =>
      /\ gsEnabled /\ last.hint = "gsheets" /\ last.save = "failed"
            => last.used = "local" /\ localFile = to_csv(last.df)
      /\ last.used = "gsheets"
            => /\ gsEnabled /\ last.hint = "gsheets" /\ last.save = "ok"
               /\ sheet.ws /\ Len(sheet.rows) = Len(last.df.rows)
      /\ last.used = "local" => localFile = to_csv(last.df)
      /\ last.used \in {"local", "gsheets"}
      /\ last.attempts \in {<<"gsheets">>, <<"gsheets", "local">>, <<"local">>}

C4_Witness ==
    /\ last.op = "add" /\ gsEnabled /\ last.save = "failed"
    /\ last.used = "local" /\ last.attempts = <<"gsheets", "local">>
    /\ Len(localFile.rows) = MaxRows

Loads == {"load", "load_after_save"}

(* C5: load_data never raises; it tries the remote backend only when it is *)
(* enabled; when the remote read fails it returns the local dataset tagged *)
(* "local"; a missing local file, and a missing worksheet, give an empty   *)
(* dataset with the columns of DATA_COLUMNS.                               *)
C5_LoadFallback ==
    [][ last'.op \in Loads =>
          /\ ~last'.raised
          /\ "gsheets" \in Range(last'.attempts) => gsEnabled
          /\ gsEnabled /\ last'.load = "failed"
                => /\ last'.used = "local"
                   /\ last'.df.rows = (IF localFile.exists THEN read_csv(localFile).rows ELSE <<>>)
                   /\ localFile.exists => last'.df.cols = localFile.cols
          /\ last'.used = "local" /\ ~localFile.exists
                => last'.df = Frame(DATA_COLUMNS, <<>>)
          /\ last'.used = "gsheets" /\ ~sheet.ws
                => last'.df = Frame(DATA_COLUMNS, <<>>)
          /\ last'.used = "gsheets" => last'.load = "ok"
      ]_vars

C5_Witness ==
    /\ last.op \in Loads /\ gsEnabled /\ last.load = "failed"
    /\ last.used = "local" /\ Len(last.df.rows) = MaxRows /\ ~last.raised

SortedByTs(rows) ==
    \A i, j \in DOMAIN rows : i < j => rows[i].timestamp <= rows[j].timestamp
Count(r, rows) == Cardinality({i \in DOMAIN rows : rows[i] = r})
SameReading(a, b) ==
    /\ a.timestamp \div TicksPerSec = b.timestamp \div TicksPerSec
    /\ a.systolic = b.systolic
    /\ a.diastolic = b.diastolic
PersistedRows(r) == IF r.used = "gsheets" THEN r.sheet.rows ELSE r.localFile.rows

(* C6: whatever the order of the rows stored and the timestamp of the new  *)
(* reading, the frame add_entry returns holds the rows it loaded plus      *)
(* exactly one new row, in ascending timestamp order, and the rows it      *)
(* persists are those readings in the same ascending order.                *)
C6_AppendSorted ==
    phase = "done" =>
      LET new == NewRow(120, 80, "", args.ts) IN
      /\ ~res.raised
      /\ Len(res.df.rows) = Len(res.prior.rows) + 1
      /\ \A r \in Range(res.df.rows) \cup Range(res.prior.rows) \cup {new} :
            Count(r, res.df.rows) = Count(r, res.prior.rows) + (IF r = new THEN 1 ELSE 0)
      /\ SortedByTs(res.df.rows)
      /\ Len(PersistedRows(res)) = Len(res.df.rows)
      /\ SortedByTs(PersistedRows(res))
      /\ \A i \in DOMAIN res.df.rows : SameReading(PersistedRows(res)[i], res.df.rows[i])

C6_Witness ==
    /\ phase = "done"
    /\ Len(res.prior.rows) = MaxLen
    /\ ~SortedByTs(res.prior.rows)
    /\ args.ts < res.df.rows[Len(res.df.rows)].timestamp
    /\ res.used = "local"

RowSet(d) == Range(d.rows)
NoDuplicates(d) == \A i, j \in DOMAIN d.rows : i # j => d.rows[i] # d.rows[j]

(* C7: merge(A,B) and merge(B,A) hold the same set of rows, the union of   *)
(* the rows of A and B; merge(A,A) holds the rows of A; a merge holds no   *)
(* two rows equal in all columns and is in ascending timestamp order.      *)
C7_MergeCommutativeIdempotent ==
    phase = "done" =>
      /\ RowSet(res.ab) = RowSet(res.ba)
      /\ RowSet(res.ab) = RowSet(args[1]) \cup RowSet(args[2])
      /\ RowSet(res.aa) = RowSet(args[1])
      /\ \A m \in {res.ab, res.ba, res.aa} : NoDuplicates(m) /\ SortedByTs(m.rows)

C7_Witness ==
    /\ phase = "done"
    /\ Len(res.ab.rows) < Len(args[1].rows) + Len(args[2].rows)
    /\ res.ab.rows # res.ba.rows
    /\ ~SortedByTs(args[1].rows \o args[2].rows)
    /\ ~NoDuplicates(args[1])

(* the decimal digits of n > 0 *)
RECURSIVE Decimal(_)
Decimal(n) == IF n < 10 THEN <<n>> ELSE Decimal(n \div 10) \o <<n % 10>>
DigitsOf(raw) == LET ds == SelectSeq(raw, LAMBDA c : c \in Digits) IN
                 [i \in DOMAIN ds |-> DigitVal[ds[i]]]
Blank(raw) == \A i \in DOMAIN raw : raw[i] = " "
Reported(kind, label) == \E e \in last'.errs : e.kind = kind /\ e.label = label

(* C8: a submission changes a store only when both fields are accepted:    *)
(* each is non-blank and denotes a whole number, systolic within [50,260]  *)
(* and diastolic within [30,180].  When a field is rejected the stores are *)
(* unchanged and an error is reported for every rejected field: "required" *)
(* for a blank one, "whole number" for one that is no integer, "between"   *)
(* for one out of range.                                                   *)
C8_ValidationGatesStorage ==
    [][ last'.op \in {"add", "reject"} =>
          LET f == last'.form IN
          /\ last'.op = "add" =>
                /\ ~Blank(f.sys_raw) /\ ~Blank(f.dia_raw)
                /\ \E r \in Range(last'.df.rows) :
                      /\ r.timestamp = f.ts
                      /\ r.systolic \in SYS_MIN..SYS_MAX
                      /\ r.diastolic \in DIA_MIN..DIA_MAX
                      /\ Decimal(r.systolic) = DigitsOf(f.sys_raw)
                      /\ Decimal(r.diastolic) = DigitsOf(f.dia_raw)
          /\ last'.op = "reject" =>
                /\ localFile' = localFile /\ sheet' = sheet
                /\ last'.errs # {}
                /\ Blank(f.dia_raw) => Reported("required", "Diastolic")
                /\ f.sys_raw = <<"a", "b", "c">> => Reported("whole number", "Systolic")
                /\ f.sys_raw = <<"3", "0", "0">> =>
                      last'.errs = {Error("between", "Systolic", 50, 260)}
                /\ f.dia_raw = <<"2", "9">> =>
                      last'.errs = {Error("between", "Diastolic", 30, 180)}
                /\ Blank(f.dia_raw) /\ f.sys_raw = <<"a", "b", "c">>
                      => Cardinality(last'.errs) = 2
          /\ (localFile' # localFile \/ sheet' # sheet) => last'.op = "add"
      ]_vars

C8_Witness ==
    /\ last.op = "reject"
    /\ Cardinality(last.errs) = 2
    /\ Len(localFile.rows) = MaxRows

(* C9: what a save through the sheet stores has the columns, in order, and *)
(* the fields (pulse_pressure included) that the same save through the     *)
(* local file stores.                                                      *)
C9_SameColumnsBothBackends ==
    last.op \in Mutations /\ last.used = "gsheets" =>
      /\ sheet.cols = save_data_local(last.df).cols
      /\ Len(sheet.rows) = Len(last.df.rows)
      /\ \A i \in DOMAIN sheet.rows :
            sheet.rows[i].pulse_pressure = save_data_local(last.df).rows[i].pulse_pressure

(* C10: a load that directly follows add_entry, an import or a clear       *)
(* returns exactly the rows that operation saved (as a store reads them    *)
(* back).                                                                  *)
C10_ReadYourWrites ==
    last.op = "load_after_save" => last.df.rows = read_csv(to_csv(last.prior)).rows

====
